---- MODULE Spec2Model ----
(***************************************************************************)
(* Climate control on a Raspberry Pi: the DHT22 sensor reader with retry,  *)
(* reset and failure/recovery e-mails (helpers/sensor_reader.py), the      *)
(* MongoDB sink (helpers/mongo_handler.py), the relay driver               *)
(* (helpers/relay_controller.py) and the two control loops: main.py        *)
(* (threshold control of both relays, MongoDB, Flask web handler) and      *)
(* main_offline.py (threshold control of relay1, duty cycle of relay2,     *)
(* CSV and MQTT).                                                          *)
(*                                                                         *)
(* Time is in seconds.  Temperatures in Celsius and humidities are         *)
(* integers; a Fahrenheit value is kept in fifths of a degree so that      *)
(* C * 9 / 5 + 32 stays exact.                                             *)
(***************************************************************************)
EXTENDS Integers, Sequences, FiniteSets, TLC

VARIABLES
    now,                        \* wall clock read at the top of a loop iteration
    last_sensor_reading_time,   \* main.py / main_offline.py loop local
    last_sensor_publish_time,   \* main_offline.py loop local (MQTT cursor)
    last_db_update_time,        \* main.py loop local (MongoDB cursor)
    last_relay2_toggle_time,    \* main_offline.py loop local (duty-cycle timer)
    relay_status,               \* the relay-state records
    pin,                        \* level of each relay's GPIO pin
    last_cmd,                   \* state passed to the last set_relay_state call that returned
    sensor_failed_previously,   \* SensorReader.sensor_failed_previously
    last_call,                  \* the read_sensor_data call of the current iteration: what it consumed and produced
    last_mail,                  \* subject of the last e-mail handed to send_email
    latest_sensor_data,         \* main.py global shown by the web page
    mongo,                      \* MongoHandler.connected / MongoHandler.collection
    pc,                         \* position of the control loop
    web,                        \* position and arguments of the web handler toggle_relay
    step,                       \* what the current loop iteration did (sinks, policies, faults)
    last_sent,                  \* one condition key, and when a notification with it was last sent
    last_read,                  \* whether and when read_sensor_data was last invoked by the loop,
                                \* and whether that cycle put an error message on the bus
    pending,                    \* per relay: the set_relay_state call that faulted when its policy last ran
    exit_path,                  \* "none" while the loop runs, else what ended it
    cleanups                    \* number of GPIO cleanup calls made

vars == <<now, last_sensor_reading_time, last_sensor_publish_time, last_db_update_time,
          last_relay2_toggle_time, relay_status, pin, last_cmd, sensor_failed_previously,
          last_call, last_mail, latest_sensor_data, mongo, pc, web, step, last_sent,
          last_read, pending, exit_path, cleanups>>
procVars == <<exit_path, cleanups>>

-----------------------------------------------------------------------------
(* helpers/sensor_reader.py *)

MAX_RETRIES == 3
HUMIDITY_BUFFER == 6
TEMPERATURE_BUFFER == -2
FAILED_SUBJECT == "Sensor failed!"
SUCCESS_SUBJECT == "Sensor is working"
NoMail == "none"

\* What one property of the DHT driver yields: a value, None, or a RuntimeError.
Val(v) == [k |-> "val", v |-> v]
Missing == [k |-> "none", v |-> 0]
Raises == [k |-> "err", v |-> 0]

\* One raw read of the device: its temperature and its humidity property.
Raw(t, h) == [t |-> t, h |-> h]

\* temperature_c * 9 / 5 + 32, in fifths of a degree Fahrenheit
CelsiusToFahrenheit(c) == c * 9 + 32 * 5

NoData == [temperature_f |-> 0, temperature_c |-> 0, humidity |-> 0]

\* SensorReader._attempt_read: temperature is read and converted first, then
\* humidity is read, then both are tested for None.
AttemptRead(raw) ==
    IF raw.t.k = "err" THEN [exc |-> "RuntimeError", data |-> NoData]
    ELSE IF raw.t.k = "none" THEN [exc |-> "TypeError", data |-> NoData]
    ELSE IF raw.h.k = "err" THEN [exc |-> "RuntimeError", data |-> NoData]
    ELSE IF raw.h.k = "none" THEN [exc |-> "RuntimeError", data |-> NoData]
    ELSE [exc |-> "none",
          data |-> [temperature_f |-> CelsiusToFahrenheit(raw.t.v),
                    temperature_c |-> raw.t.v + TEMPERATURE_BUFFER,
                    humidity |-> raw.h.v + HUMIDITY_BUFFER]]

\* SensorReader.read_sensor_data from loop index `attempt` on; raws[i] is what the
\* device yields at the i-th raw read of the call.  The result records the
\* outcome ("ok", or the exception that leaves the call), the reading, the raw
\* reads consumed, the number of _reset_sensor calls, the e-mail sent and the
\* flag as the call found and left it.
\* A mutant: the retries given up one attempt early.
RECURSIVE ReadFromGivesUpEarly(_, _, _)
ReadFromGivesUpEarly(attempt, failed, raws) ==
    LET r == AttemptRead(raws[attempt + 1]) IN
    IF r.exc = "none"
    THEN [outcome |-> "ok", data |-> r.data, raws |-> SubSeq(raws, 1, attempt + 1),
          resets |-> attempt, mail |-> IF failed THEN SUCCESS_SUBJECT ELSE NoMail,
          failed_before |-> failed, failed_after |-> FALSE]
    ELSE IF r.exc = "RuntimeError"
    THEN IF attempt >= MAX_RETRIES - 2
         THEN [outcome |-> "RuntimeError", data |-> NoData,
               raws |-> SubSeq(raws, 1, attempt + 1), resets |-> attempt,
               mail |-> IF ~failed THEN FAILED_SUBJECT ELSE NoMail,
               failed_before |-> failed, failed_after |-> TRUE]
         ELSE ReadFromGivesUpEarly(attempt + 1, failed, raws)
    ELSE [outcome |-> r.exc, data |-> NoData, raws |-> SubSeq(raws, 1, attempt + 1),
          resets |-> attempt, mail |-> NoMail,
          failed_before |-> failed, failed_after |-> failed]

RECURSIVE ReadFrom(_, _, _)
ReadFrom(attempt, failed, raws) ==
    LET r == AttemptRead(raws[attempt + 1]) IN
    IF r.exc = "none"
    THEN [outcome |-> "ok", data |-> r.data, raws |-> SubSeq(raws, 1, attempt + 1),
          resets |-> attempt, mail |-> IF failed THEN SUCCESS_SUBJECT ELSE NoMail,
          failed_before |-> failed, failed_after |-> FALSE]
    ELSE IF r.exc = "RuntimeError"
    THEN IF attempt = MAX_RETRIES - 1
         THEN [outcome |-> "RuntimeError", data |-> NoData,
               raws |-> SubSeq(raws, 1, attempt + 1), resets |-> attempt,
               mail |-> IF ~failed THEN FAILED_SUBJECT ELSE NoMail,
               failed_before |-> failed, failed_after |-> TRUE]
         ELSE ReadFrom(attempt + 1, failed, raws)
    ELSE [outcome |-> r.exc, data |-> NoData, raws |-> SubSeq(raws, 1, attempt + 1),
          resets |-> attempt, mail |-> NoMail,
          failed_before |-> failed, failed_after |-> failed]

read_sensor_data(failed, raws) == ReadFrom(0, failed, raws)

NoCall == [outcome |-> "none", data |-> NoData, raws |-> <<>>, resets |-> 0,
           mail |-> NoMail, failed_before |-> FALSE, failed_after |-> FALSE]

\* The effect of one read_sensor_data call on the reader and on the mail sink.
ReadSensor(raws) ==
    LET c == read_sensor_data(sensor_failed_previously, raws) IN
    /\ last_call' = c
    /\ sensor_failed_previously' = c.failed_after
    /\ last_mail' = IF c.mail = NoMail THEN last_mail ELSE c.mail

-----------------------------------------------------------------------------
(* helpers/relay_controller.py *)

Relays == {"relay1", "relay2"}

\* RelayController.set_relay_state: GPIO.HIGH if state == 'ON' else GPIO.LOW
PinLevel(state) == IF state = "ON" THEN "HIGH" ELSE "LOW"

\* A set_relay_state call that returns drives the pin; one that raises
\* (GPIO.output on a channel that is not set up) leaves it alone.
\* `call` is the state passed, or "none" when no call is made.
Actuate(pins, relay, call, fault) ==
    IF call # "none" /\ ~fault THEN [pins EXCEPT ![relay] = PinLevel(call)] ELSE pins

Commanded(cmds, relay, call, fault) ==
    IF call # "none" /\ ~fault THEN [cmds EXCEPT ![relay] = call] ELSE cmds

\* The relay-state record after a policy's set_relay_state call: in
\* main_offline.py the assignment relay_status[relay] = state follows the call
\* (lines 118-119, 124-125, 143-144, 152-153), so a call that raises skips it.
\* A mutant: the record assigned before the call is made.
RecordedBeforeActuation(status, relay, call, fault) ==
    IF call # "none" THEN [status EXCEPT ![relay] = call] ELSE status

Recorded(status, relay, call, fault) ==
    IF call # "none" /\ ~fault THEN [status EXCEPT ![relay] = call] ELSE status

\* The call that is left to be made again: when a relay's policy has run,
\* the state of its set_relay_state call if that call raised.
PendingAfter(p, relay, evaluated, call, fault) ==
    IF ~evaluated THEN p
    ELSE [p EXCEPT ![relay] = IF call # "none" /\ fault THEN call ELSE "none"]

-----------------------------------------------------------------------------
(* main_offline.py *)

SLEEP_DURATION_SENSOR == 10
SENSOR_PUBLISH_INTERVAL == 3600
HUMIDITY_THRESHOLD_LOW == 81
HUMIDITY_THRESHOLD_HIGH == 89
HUMIDITY_ALERT_THRESHOLD == 75
NOTIFY_INTERVAL == 1800
interval_duration == 3600
on_duration == 600

MQTT_SENSOR_TOPIC == "sensor/data"
MQTT_RELAY_TOPIC == "relay/status"
MQTT_ERROR_TOPIC == "sensor/error"

\* The condition keys of the notifications.
KeyOn == "relay-transition-on"
KeyOff == "relay-transition-off"
KeyFailed == "sensor-failed"
KeyRecovered == "sensor-recovered"
KeySustained == "sustained-low-humidity-with-relay-on"
Keys == {KeyOn, KeyOff, KeyFailed, KeyRecovered, KeySustained}
TransitionKey(state) == IF state = "ON" THEN KeyOn ELSE KeyOff
MailKey(subject) == IF subject = FAILED_SUBJECT THEN KeyFailed ELSE KeyRecovered

\* check_conditions_and_toggle_relays, the humidity branch: the state to pass
\* to set_relay_state for relay1, or "none".
HumidityPolicy(humidity, state) ==
    IF humidity < HUMIDITY_THRESHOLD_LOW /\ state # "ON" THEN "ON"
    ELSE IF humidity >= HUMIDITY_THRESHOLD_HIGH /\ state # "OFF" THEN "OFF"
    ELSE "none"

\* manage_relay2_timing: the state to pass to set_relay_state for relay2, or
\* "none", from the recorded state and current_time - last_toggle_time.
\* A mutant: the OFF phase lasting the whole interval.
DutyPolicyFullInterval(state, elapsed) ==
    IF state = "ON"
    THEN IF elapsed >= on_duration THEN "OFF" ELSE "none"
    ELSE IF elapsed >= interval_duration THEN "ON" ELSE "none"

DutyPolicy(state, elapsed) ==
    IF state = "ON"
    THEN IF elapsed >= on_duration THEN "OFF" ELSE "none"
    ELSE IF elapsed >= interval_duration - on_duration THEN "ON" ELSE "none"

\* manage_relay2_timing's return value: last_toggle_time = current_time is the
\* last statement of each branch (lines 148, 157), reached when
\* set_relay_state has returned; line 161 returns the argument otherwise.
\* A mutant: the timer reset whenever the policy's state is evaluated.
ToggleTimeAfterEveryCall(last, current_time, call, fault) == current_time

ToggleTimeAfter(last, current_time, call, fault) ==
    IF call # "none" /\ ~fault THEN current_time ELSE last

\* What a loop iteration did; kept for the properties.
NoStep == [kind |-> "none", at |-> 0,
           policy1 |-> FALSE, r1_before |-> "None", r1_call |-> "none", r1_fault |-> FALSE,
           policy2 |-> FALSE, r2_before |-> "None", r2_call |-> "none", r2_fault |-> FALSE,
           r2_elapsed |-> 0, toggle_before |-> 0,
           csv |-> "none", csv_row |-> <<>>,
           emit |-> "none", cursor_before |-> <<0, 0>>, bus |-> <<>>,
           pending_before |-> [r \in Relays |-> "none"], store |-> "none"]

\* The topics that reached the broker, in order: each entry of `msgs` is a
\* topic or "none"; MqttHandler.publish returns False when the broker is
\* not reachable.
Published(msgs, mqtt_ok) ==
    IF mqtt_ok THEN SelectSeq(msgs, LAMBDA m : m # "none") ELSE <<>>

\* The notifications of an iteration stamp the condition key that is followed.
Stamp(sent, keys) ==
    IF sent.key \in keys THEN [sent EXCEPT !.any = TRUE, !.at = now] ELSE sent

\* The instants (seconds since the start) at which a loop iteration begins.  An
\* iteration lasts at least the time.sleep(1) that ends it; the sensor retries
\* and the SMTP and MQTT calls it blocks on put no upper bound on it.
\* OfflineTimes: the first seconds and polls; DutyTimes: around the ends of the
\* OFF and ON phases of relay2.
MaxPolls == 2
Jitter == 5
OfflineTimes == {0, 1} \cup {SLEEP_DURATION_SENSOR * k : k \in 1..MaxPolls}
DutyTimes ==
    {0} \cup {b + e : b \in {interval_duration - on_duration, interval_duration},
                      e \in {0 - Jitter, 0, Jitter}}

\* What the DHT22 yields in a read_sensor_data call of main_offline: readings
\* around the humidity thresholds and below the alert threshold, at the first
\* raw read or after one failed read; three failed reads; a read without a
\* temperature.
OfflineTemperature == 25
OfflineHumidities ==
    {h - HUMIDITY_BUFFER : h \in {HUMIDITY_ALERT_THRESHOLD - 1,
                                  HUMIDITY_THRESHOLD_LOW - 1, HUMIDITY_THRESHOLD_LOW,
                                  HUMIDITY_THRESHOLD_HIGH - 1, HUMIDITY_THRESHOLD_HIGH}}
LoopRaws(good) ==
    LET g0 == CHOOSE g \in good : TRUE
        bad == Raw(g0.t, Missing)
    IN  {<<g>> : g \in good} \cup {<<bad, Raw(Raises, Raises), g0>>}
        \cup {<<bad, bad, bad>>}
        \cup {<<Raw(Missing, g0.h)>>}
OfflineRaws == LoopRaws({Raw(Val(OfflineTemperature), Val(h)) : h \in OfflineHumidities})

\* Line 190: what sensor_reader.read_sensor_data() does for each state of the
\* reader's flag and each of these raw reads.
OfflineReads ==
    [failed \in BOOLEAN |-> [raws \in OfflineRaws |-> read_sensor_data(failed, raws)]]

\* main(), lines 179-183: the records, initialize_relays, the three timers.
Init ==
    /\ now = 0
    /\ last_sensor_reading_time = 0 - SLEEP_DURATION_SENSOR
    /\ last_sensor_publish_time = 0 - SENSOR_PUBLISH_INTERVAL
    /\ last_db_update_time = 0
    /\ last_relay2_toggle_time = 0
    /\ relay_status = [r \in Relays |-> "OFF"]
    /\ pin = [r \in Relays |-> "LOW"]
    /\ last_cmd = [r \in Relays |-> "OFF"]
    /\ sensor_failed_previously = FALSE
    /\ last_call = NoCall
    /\ last_mail = NoMail
    /\ latest_sensor_data = NoData
    /\ mongo = [connected |-> FALSE, collection |-> FALSE]
    /\ pc = "top"
    /\ web = [pc |-> "idle", relay_name |-> "relay1", new_state |-> "OFF"]
    /\ step = NoStep
    /\ \E k \in Keys : last_sent = [key |-> k, any |-> FALSE, at |-> 0]
    /\ last_read = [any |-> FALSE, at |-> 0, err |-> FALSE]
    /\ pending = [r \in Relays |-> "none"]
    /\ exit_path = "none"
    /\ cleanups = 0

mainOnly == <<last_db_update_time, latest_sensor_data, mongo, web>>

\* `except Exception` (main_offline.py line 204, main.py line 134): the
\* handler of the loop's try takes every exception but the ones that do not
\* derive from Exception.
\* A mutant: a handler for RuntimeError only.
LoopCatchesRuntimeErrorOnly(exc) == exc = "RuntimeError"

LoopCatches(exc) == exc \notin {"KeyboardInterrupt", "SystemExit"}

\* __main__ of main_offline.py (lines 210-217): the finally clause runs
\* relay_controller.cleanup() when main() is left by an exception,
\* KeyboardInterrupt included.  No handler is installed for SIGTERM: its
\* default action ends the process at once.
RunsFinally(cause) == cause # "SIGTERM"

ExitBy(cause) ==
    /\ pc' = "exited"
    /\ exit_path' = cause
    /\ cleanups' = IF RunsFinally(cause) THEN cleanups + 1 ELSE cleanups

\* Where an iteration of main() goes when `exc` is raised inside the loop's try.
OfflineHandle(exc) ==
    IF LoopCatches(exc) THEN pc' = "sleep" /\ UNCHANGED procVars ELSE ExitBy(exc)

\* The loop's test at line 188.
PollDue == now - last_sensor_reading_time >= SLEEP_DURATION_SENSOR

\* An iteration between two sensor polls: nothing but the sleep.
OfflineIdle ==
    /\ pc = "top"
    /\ ~PollDue
    /\ pc' = "sleep"
    /\ step' = [NoStep EXCEPT !.kind = "idle", !.at = now]
    /\ UNCHANGED <<now, last_sensor_reading_time, last_sensor_publish_time,
                   last_relay2_toggle_time, relay_status, pin, last_cmd,
                   sensor_failed_previously, last_call, last_mail, last_sent>>
    /\ UNCHANGED mainOnly
    /\ UNCHANGED <<procVars, last_read, pending>>

\* A poll whose read_sensor_data raises: line 191 and all that follows it are
\* skipped, the handler at line 204 publishes the error.
OfflinePollFails ==
    /\ pc = "top"
    /\ PollDue
    /\ \E raws \in OfflineRaws, mqtt_ok \in BOOLEAN :
          LET c == OfflineReads[sensor_failed_previously][raws] IN
          /\ c.outcome # "ok"
          /\ ReadSensor(raws)
          /\ step' = [NoStep EXCEPT !.kind = "poll_fail", !.at = now,
                                    !.bus = IF LoopCatches(c.outcome)
                                            THEN Published(<<MQTT_ERROR_TOPIC>>, mqtt_ok)
                                            ELSE <<>>]
          /\ last_sent' = Stamp(last_sent,
                                IF c.mail = NoMail THEN {} ELSE {MailKey(c.mail)})
          /\ OfflineHandle(c.outcome)
          /\ last_read' = [any |-> TRUE, at |-> now,
                           err |-> LoopCatches(c.outcome) /\ mqtt_ok]
    /\ UNCHANGED <<now, last_sensor_reading_time, last_sensor_publish_time,
                   last_relay2_toggle_time, relay_status, pin, last_cmd, pending>>
    /\ UNCHANGED mainOnly

\* A poll whose read succeeds, lines 189-202: check_conditions_and_toggle_relays,
\* write_to_csv, the MQTT publish when due, manage_relay2_timing.  A fault of
\* set_relay_state is caught inside the function that made the call; a fault of
\* write_to_csv reaches the handler at line 204 and skips the rest.
OfflinePollOk ==
    /\ pc = "top"
    /\ PollDue
    /\ \E raws \in OfflineRaws, mqtt_ok, csv_ok, fault1, fault2 \in BOOLEAN :
          LET c == OfflineReads[sensor_failed_previously][raws]
              call1 == HumidityPolicy(c.data.humidity, relay_status["relay1"])
              done1 == call1 # "none" /\ ~fault1
              status1 == Recorded(relay_status, "relay1", call1, fault1)
              due == csv_ok /\ now - last_sensor_publish_time >= SENSOR_PUBLISH_INTERVAL
              elapsed == now - last_relay2_toggle_time
              call2 == IF csv_ok THEN DutyPolicy(status1["relay2"], elapsed) ELSE "none"
              done2 == call2 # "none" /\ ~fault2
              status2 == Recorded(status1, "relay2", call2, fault2)
              msgs == << IF done1 THEN MQTT_RELAY_TOPIC ELSE "none",
                         IF call1 # "none" /\ fault1 THEN MQTT_ERROR_TOPIC ELSE "none",
                         IF ~csv_ok /\ LoopCatches("OSError") THEN MQTT_ERROR_TOPIC
                                                              ELSE "none",
                         IF due THEN MQTT_SENSOR_TOPIC ELSE "none",
                         IF done2 THEN MQTT_RELAY_TOPIC ELSE "none",
                         IF call2 # "none" /\ fault2 THEN MQTT_ERROR_TOPIC ELSE "none" >>
          IN
          /\ c.outcome = "ok"
          /\ fault1 => call1 # "none"
          /\ fault2 => call2 # "none"
          /\ ReadSensor(raws)
          /\ relay_status' = status2
          /\ pin' = Actuate(Actuate(pin, "relay1", call1, fault1), "relay2", call2, fault2)
          /\ last_cmd' = Commanded(Commanded(last_cmd, "relay1", call1, fault1),
                                   "relay2", call2, fault2)
          /\ last_sensor_publish_time' = IF due THEN now ELSE last_sensor_publish_time
          /\ last_relay2_toggle_time' =
                IF csv_ok THEN ToggleTimeAfter(last_relay2_toggle_time, now, call2, fault2)
                          ELSE last_relay2_toggle_time
          /\ pending' = PendingAfter(PendingAfter(pending, "relay1", TRUE, call1, fault1),
                                     "relay2", csv_ok, call2, fault2)
          /\ last_sent' = Stamp(last_sent,
                 (IF c.mail = NoMail THEN {} ELSE {MailKey(c.mail)})
                 \cup (IF done1 /\ mqtt_ok THEN {TransitionKey(call1)} ELSE {})
                 \cup (IF done2 /\ mqtt_ok THEN {TransitionKey(call2)} ELSE {}))
          /\ step' = [kind |-> "poll_ok", at |-> now,
                      policy1 |-> TRUE, r1_before |-> relay_status["relay1"],
                      r1_call |-> call1, r1_fault |-> fault1,
                      policy2 |-> csv_ok, r2_before |-> relay_status["relay2"],
                      r2_call |-> call2, r2_fault |-> fault2,
                      r2_elapsed |-> elapsed, toggle_before |-> last_relay2_toggle_time,
                      csv |-> IF csv_ok THEN "ok" ELSE "raised",
                      csv_row |-> IF csv_ok THEN <<c.data.temperature_f, c.data.temperature_c,
                                                   c.data.humidity, status1["relay1"],
                                                   status1["relay2"]>>
                                  ELSE <<>>,
                      emit |-> IF due THEN (IF mqtt_ok THEN "ok" ELSE "fail") ELSE "none",
                      cursor_before |-> <<last_db_update_time, last_sensor_publish_time>>,
                      bus |-> Published(msgs, mqtt_ok),
                      pending_before |-> pending, store |-> "none"]
          /\ IF csv_ok THEN pc' = "sleep" /\ UNCHANGED procVars
                       ELSE OfflineHandle("OSError")
          /\ last_read' = [any |-> TRUE, at |-> now,
                           err |-> \E i \in 1..Len(msgs) :
                                      mqtt_ok /\ msgs[i] = MQTT_ERROR_TOPIC]
    /\ last_sensor_reading_time' = now
    /\ UNCHANGED now
    /\ UNCHANGED mainOnly

\* time.sleep(1) at line 208 and whatever else the iteration took: the next
\* iteration reads a later clock.
OfflineSleepUntil(times) ==
    /\ pc = "sleep"
    /\ \E t \in times : t >= now + 1 /\ now' = t
    /\ pc' = "top"
    /\ step' = NoStep
    /\ last_call' = NoCall
    /\ UNCHANGED <<last_sensor_reading_time, last_sensor_publish_time,
                   last_relay2_toggle_time, relay_status, pin, last_cmd,
                   sensor_failed_previously, last_mail, last_sent>>
    /\ UNCHANGED mainOnly
    /\ UNCHANGED <<procVars, last_read, pending>>

OfflineSleep == OfflineSleepUntil(OfflineTimes)
DutySleep == OfflineSleepUntil(DutyTimes)

\* main_offline.py over its first polls
Next == OfflineIdle \/ OfflinePollFails \/ OfflinePollOk \/ OfflineSleep
Spec == Init /\ [][Next]_vars

\* main_offline.py over a period of the duty cycle
NextDuty == OfflineIdle \/ OfflinePollFails \/ OfflinePollOk \/ DutySleep
SpecDuty == Init /\ [][NextDuty]_vars

\* Ctrl-C while main() runs: KeyboardInterrupt is no Exception, so it passes
\* the loop's handler (line 204) and reaches lines 213-216.
OfflineInterrupt ==
    /\ pc \in {"top", "sleep"}
    /\ ExitBy("KeyboardInterrupt")
    /\ UNCHANGED <<now, last_sensor_reading_time, last_sensor_publish_time,
                   last_relay2_toggle_time, relay_status, pin, last_cmd,
                   sensor_failed_previously, last_call, last_mail, last_sent,
                   last_read, pending, step>>
    /\ UNCHANGED mainOnly

\* The process is sent SIGTERM (kill, systemd stop, shutdown).
OfflineTerminate ==
    /\ pc \in {"top", "sleep"}
    /\ ExitBy("SIGTERM")
    /\ UNCHANGED <<now, last_sensor_reading_time, last_sensor_publish_time,
                   last_relay2_toggle_time, relay_status, pin, last_cmd,
                   sensor_failed_previously, last_call, last_mail, last_sent,
                   last_read, pending, step>>
    /\ UNCHANGED mainOnly

\* main_offline.py as a process: its loop and the ways it ends
NextProc == Next \/ OfflineInterrupt \/ OfflineTerminate
SpecProc == Init /\ [][NextProc]_vars

-----------------------------------------------------------------------------
(* helpers/sensor_reader.py on its own: read_sensor_data called again and again *)

SensorTemperatures == {25, 30}
SensorHumidities == {50}
RawReads ==
    {Raw(t, h) : t \in {Val(v) : v \in SensorTemperatures} \cup {Missing, Raises},
                 h \in {Val(v) : v \in SensorHumidities} \cup {Missing}}
    \cup {Raw(Val(v), Raises) : v \in SensorTemperatures}
SensorRaws == [1..MAX_RETRIES -> RawReads]

InitSensor == Init /\ last_sent.key = KeyFailed

SensorRead ==
    /\ \E raws \in SensorRaws : ReadSensor(raws)
    /\ UNCHANGED <<now, last_sensor_reading_time, last_sensor_publish_time,
                   last_relay2_toggle_time, relay_status, pin, last_cmd, pc, step, last_sent>>
    /\ UNCHANGED mainOnly
    /\ UNCHANGED <<procVars, last_read, pending>>

NextSensor == SensorRead
SpecSensor == InitSensor /\ [][NextSensor]_vars

-----------------------------------------------------------------------------
(* helpers/mongo_handler.py *)

\* MongoHandler.insert_data.  m.connected is self.connected, m.collection says
\* whether self.collection is a collection (it is None when the store was not
\* reachable at construction).  The reconnect path reads self.db_name, which
\* __init__ never sets; after it self.collection is still None.
insert_data(m, reachable) ==
    IF ~m.connected
    THEN IF ~reachable THEN [result |-> "False", mongo |-> m]
         ELSE [result |-> "AttributeError", mongo |-> [m EXCEPT !.connected = TRUE]]
    ELSE IF ~m.collection THEN [result |-> "AttributeError", mongo |-> m]
    ELSE [result |-> IF reachable THEN "True" ELSE "False", mongo |-> m]

-----------------------------------------------------------------------------
(* main.py: the control loop thread and the Flask handler toggle_relay *)

Main_SLEEP_DURATION_SENSOR == 10
SLEEP_DURATION_DB == 300
Main_HUMIDITY_THRESHOLD_LOW == 80
Main_HUMIDITY_THRESHOLD_HIGH == 90
TEMPERATURE_THRESHOLD_LOW == 28
TEMPERATURE_THRESHOLD_HIGH == 30

\* check_conditions_and_toggle_relays, lines 71-77: the state to pass to
\* set_relay_state for relay1, or "none".
Main_HumidityPolicy(humidity, state) ==
    IF humidity < Main_HUMIDITY_THRESHOLD_LOW /\ state # "ON" THEN "ON"
    ELSE IF humidity >= Main_HUMIDITY_THRESHOLD_HIGH /\ state # "OFF" THEN "OFF"
    ELSE "none"

\* check_conditions_and_toggle_relays, lines 79-85: the same for relay2.
\* A mutant: the sense of the humidity branch (ON below low, OFF from high on).
TemperaturePolicySameSense(temperature_c, state) ==
    IF temperature_c < TEMPERATURE_THRESHOLD_LOW /\ state # "ON" THEN "ON"
    ELSE IF temperature_c >= TEMPERATURE_THRESHOLD_HIGH /\ state # "OFF" THEN "OFF"
    ELSE "none"

TemperaturePolicy(temperature_c, state) ==
    IF temperature_c < TEMPERATURE_THRESHOLD_LOW /\ state # "OFF" THEN "OFF"
    ELSE IF temperature_c >= TEMPERATURE_THRESHOLD_HIGH /\ state # "ON" THEN "ON"
    ELSE "none"

\* The instants at which an iteration of climate_control_loop begins.
MainPolls == 1
MainTimes == {0, 1} \cup {Main_SLEEP_DURATION_SENSOR * k : k \in 1..MainPolls}

\* What the DHT22 yields in main.py: readings at and next to the thresholds of
\* both relays (calibrated temperature, calibrated humidity).
MainReadings ==
    { <<TEMPERATURE_THRESHOLD_LOW - 1, Main_HUMIDITY_THRESHOLD_LOW - 1>>,
      <<TEMPERATURE_THRESHOLD_LOW, Main_HUMIDITY_THRESHOLD_LOW>>,
      <<TEMPERATURE_THRESHOLD_HIGH - 1, Main_HUMIDITY_THRESHOLD_HIGH - 1>>,
      <<TEMPERATURE_THRESHOLD_HIGH, Main_HUMIDITY_THRESHOLD_HIGH>>,
      <<TEMPERATURE_THRESHOLD_HIGH, Main_HUMIDITY_THRESHOLD_LOW - 1>> }
MainRaws ==
    LoopRaws({Raw(Val(r[1] - TEMPERATURE_BUFFER), Val(r[2] - HUMIDITY_BUFFER)) :
                 r \in MainReadings})

\* The new_state strings a POST to /toggle_relay carries: the two the page's
\* form sends, and with them one that is neither (the handler takes
\* request.form['new_state'] as it comes, line 93).
WebStates == {"ON", "OFF"}
WebStrings == WebStates \cup {"on"}

\* Module level of main.py (lines 39-45) and the start of climate_control_loop
\* (lines 104-105).  The store is reachable when MongoHandler is built, or not.
InitMain ==
    /\ now = 0
    /\ last_sensor_reading_time = 0 - Main_SLEEP_DURATION_SENSOR
    /\ last_db_update_time = 0 - SLEEP_DURATION_DB
    /\ last_sensor_publish_time = 0
    /\ last_relay2_toggle_time = 0
    /\ relay_status = [r \in Relays |-> "None"]
    /\ pin = [r \in Relays |-> "LOW"]
    /\ last_cmd = [r \in Relays |-> "None"]
    /\ sensor_failed_previously = FALSE
    /\ last_call = NoCall
    /\ last_mail = NoMail
    /\ latest_sensor_data = NoData
    /\ \E up \in BOOLEAN : mongo = [connected |-> up, collection |-> up]
    /\ pc = "top"
    /\ web = [pc |-> "idle", relay_name |-> "relay1", new_state |-> "OFF"]
    /\ step = NoStep
    /\ last_sent = [key |-> KeyFailed, any |-> FALSE, at |-> 0]
    /\ last_read = [any |-> FALSE, at |-> 0, err |-> FALSE]
    /\ pending = [r \in Relays |-> "none"]
    /\ exit_path = "none"
    /\ cleanups = 0

offlineOnly == <<last_sensor_publish_time, last_relay2_toggle_time, last_sent>>
sensorVars == <<sensor_failed_previously, last_call, last_mail>>
relayVars == <<relay_status, pin, last_cmd>>

Main_PollDue == now - last_sensor_reading_time >= Main_SLEEP_DURATION_SENSOR

\* Where an iteration of climate_control_loop goes when `exc` is raised inside
\* its try (line 134): an exception that is not caught ends the loop's thread;
\* the finally clause of __main__ belongs to the main thread.
MainHandle(exc) ==
    IF LoopCatches(exc) THEN pc' = "sleep" /\ UNCHANGED procVars
    ELSE pc' = "exited" /\ exit_path' = exc /\ UNCHANGED cleanups

\* Lines 112-116: latest_sensor_data is assigned after read_sensor_data has
\* returned, so a call that raises leaves it as it was.
\* A mutant: the page's reading overwritten whatever the call's outcome.
LatestAfterAnyOutcome(c, latest) == c.data

LatestAfter(c, latest) == IF c.outcome = "ok" THEN c.data ELSE latest

\* An iteration between two sensor polls.
MainIdle ==
    /\ pc = "top"
    /\ ~Main_PollDue
    /\ pc' = "sleep"
    /\ step' = [NoStep EXCEPT !.kind = "idle", !.at = now]
    /\ UNCHANGED <<now, last_sensor_reading_time, last_db_update_time, latest_sensor_data,
                   mongo, web>>
    /\ UNCHANGED <<relayVars, sensorVars, offlineOnly>>
    /\ UNCHANGED <<procVars, last_read, pending>>

\* A poll whose read_sensor_data raises: the handler at line 134 logs it.
MainPollFails ==
    /\ pc = "top"
    /\ Main_PollDue
    /\ \E raws \in MainRaws :
          LET c == read_sensor_data(sensor_failed_previously, raws) IN
          /\ c.outcome # "ok"
          /\ ReadSensor(raws)
          /\ latest_sensor_data' = LatestAfter(c, latest_sensor_data)
          /\ MainHandle(c.outcome)
    /\ step' = [NoStep EXCEPT !.kind = "poll_fail", !.at = now]
    /\ last_read' = [any |-> TRUE, at |-> now, err |-> FALSE]
    /\ UNCHANGED <<now, last_sensor_reading_time, last_db_update_time, mongo, web>>
    /\ UNCHANGED <<relayVars, offlineOnly, pending>>

\* A poll whose read succeeds, lines 112-130: the reading is published to the
\* web page and, when due, inserted into MongoDB.  An insert that raises
\* reaches the handler at line 134: check_conditions_and_toggle_relays is
\* not called.
MainPollOk ==
    /\ pc = "top"
    /\ Main_PollDue
    /\ \E raws \in MainRaws, reachable \in BOOLEAN :
          LET c == read_sensor_data(sensor_failed_previously, raws)
              due == now - last_db_update_time >= SLEEP_DURATION_DB
              ins == insert_data(mongo, reachable)
              raised == due /\ ins.result = "AttributeError"
          IN
          /\ c.outcome = "ok"
          /\ ~due => reachable
          /\ ReadSensor(raws)
          /\ latest_sensor_data' = LatestAfter(c, latest_sensor_data)
          /\ mongo' = IF due THEN ins.mongo ELSE mongo
          /\ last_db_update_time' = IF due /\ ~raised THEN now ELSE last_db_update_time
          /\ step' = [NoStep EXCEPT !.kind = "poll_ok", !.at = now,
                                    !.pending_before = pending,
                         !.store = IF ~due THEN "none"
                                   ELSE IF reachable THEN "up" ELSE "down",
                         !.emit = IF ~due THEN "none"
                                  ELSE IF raised THEN "raised"
                                  ELSE IF ins.result = "True" THEN "ok" ELSE "fail",
                         !.cursor_before = <<last_db_update_time, last_sensor_publish_time>>]
          /\ IF raised THEN MainHandle(ins.result)
                       ELSE pc' = "relay1" /\ UNCHANGED procVars
    /\ last_sensor_reading_time' = now
    /\ last_read' = [any |-> TRUE, at |-> now, err |-> FALSE]
    /\ UNCHANGED <<now, web>>
    /\ UNCHANGED <<relayVars, offlineOnly, pending>>

\* Line 71 / 75: the humidity branch is chosen from the reading and the record.
MainCheckRelay1 ==
    /\ pc = "relay1"
    /\ LET call == Main_HumidityPolicy(last_call.data.humidity, relay_status["relay1"]) IN
          /\ step' = [step EXCEPT !.policy1 = TRUE, !.r1_before = relay_status["relay1"],
                                  !.r1_call = call]
          /\ pc' = IF call = "none" THEN "relay2" ELSE "set1"
          /\ pending' = PendingAfter(pending, "relay1", call = "none", call, FALSE)
    /\ UNCHANGED <<now, last_sensor_reading_time, last_db_update_time, latest_sensor_data,
                   mongo, web>>
    /\ UNCHANGED <<relayVars, sensorVars, offlineOnly>>
    /\ UNCHANGED <<procVars, last_read>>

\* Line 72 / 76: set_relay_state; a fault is caught at line 86, which ends the
\* call of check_conditions_and_toggle_relays.
MainSetRelay1 ==
    /\ pc = "set1"
    /\ \E fault \in BOOLEAN :
          /\ pin' = Actuate(pin, "relay1", step.r1_call, fault)
          /\ last_cmd' = Commanded(last_cmd, "relay1", step.r1_call, fault)
          /\ step' = [step EXCEPT !.r1_fault = fault]
          /\ pc' = IF fault THEN "sleep" ELSE "log1"
          /\ pending' = PendingAfter(pending, "relay1", TRUE, step.r1_call, fault)
    /\ UNCHANGED <<now, last_sensor_reading_time, last_db_update_time, latest_sensor_data,
                   mongo, web, relay_status>>
    /\ UNCHANGED <<sensorVars, offlineOnly>>
    /\ UNCHANGED <<procVars, last_read>>

\* log_relay_state (lines 54-66): the record is set when it differs, and then
\* the change is inserted into MongoDB.  The outcome of the insert is
\* "none" when the record already held new_state.
LogRelayState(relay_name, new_state, reachable) ==
    IF relay_status[relay_name] # new_state
    THEN LET ins == insert_data(mongo, reachable) IN
         [status |-> [relay_status EXCEPT ![relay_name] = new_state],
          mongo |-> ins.mongo, result |-> ins.result]
    ELSE [status |-> relay_status, mongo |-> mongo, result |-> "none"]

\* Line 73 / 77.  An insert that raises is caught at line 86: the temperature
\* branch is not reached.
MainLogRelay1 ==
    /\ pc = "log1"
    /\ \E reachable \in BOOLEAN :
          LET l == LogRelayState("relay1", step.r1_call, reachable) IN
          /\ relay_status' = l.status
          /\ mongo' = l.mongo
          /\ pc' = IF l.result = "AttributeError" THEN "sleep" ELSE "relay2"
    /\ UNCHANGED <<now, last_sensor_reading_time, last_db_update_time, latest_sensor_data,
                   web, pin, last_cmd, step>>
    /\ UNCHANGED <<sensorVars, offlineOnly>>
    /\ UNCHANGED <<procVars, last_read, pending>>

\* Line 79 / 83: the temperature branch.
MainCheckRelay2 ==
    /\ pc = "relay2"
    /\ LET call == TemperaturePolicy(last_call.data.temperature_c, relay_status["relay2"]) IN
          /\ step' = [step EXCEPT !.policy2 = TRUE, !.r2_before = relay_status["relay2"],
                                  !.r2_call = call]
          /\ pc' = IF call = "none" THEN "sleep" ELSE "set2"
          /\ pending' = PendingAfter(pending, "relay2", call = "none", call, FALSE)
    /\ UNCHANGED <<now, last_sensor_reading_time, last_db_update_time, latest_sensor_data,
                   mongo, web>>
    /\ UNCHANGED <<relayVars, sensorVars, offlineOnly>>
    /\ UNCHANGED <<procVars, last_read>>

\* Line 80 / 84.
MainSetRelay2 ==
    /\ pc = "set2"
    /\ \E fault \in BOOLEAN :
          /\ pin' = Actuate(pin, "relay2", step.r2_call, fault)
          /\ last_cmd' = Commanded(last_cmd, "relay2", step.r2_call, fault)
          /\ step' = [step EXCEPT !.r2_fault = fault]
          /\ pc' = IF fault THEN "sleep" ELSE "log2"
          /\ pending' = PendingAfter(pending, "relay2", TRUE, step.r2_call, fault)
    /\ UNCHANGED <<now, last_sensor_reading_time, last_db_update_time, latest_sensor_data,
                   mongo, web, relay_status>>
    /\ UNCHANGED <<sensorVars, offlineOnly>>
    /\ UNCHANGED <<procVars, last_read>>

\* Line 81 / 85.
MainLogRelay2 ==
    /\ pc = "log2"
    /\ \E reachable \in BOOLEAN :
          LET l == LogRelayState("relay2", step.r2_call, reachable) IN
          /\ relay_status' = l.status
          /\ mongo' = l.mongo
    /\ pc' = "sleep"
    /\ UNCHANGED <<now, last_sensor_reading_time, last_db_update_time, latest_sensor_data,
                   web, pin, last_cmd, step>>
    /\ UNCHANGED <<sensorVars, offlineOnly>>
    /\ UNCHANGED <<procVars, last_read, pending>>

\* time.sleep(1) at line 137 and whatever else the iteration took.
MainSleep ==
    /\ pc = "sleep"
    /\ \E t \in MainTimes : t >= now + 1 /\ now' = t
    /\ pc' = "top"
    /\ step' = NoStep
    /\ last_call' = NoCall
    /\ UNCHANGED <<last_sensor_reading_time, last_db_update_time, latest_sensor_data,
                   mongo, web, sensor_failed_previously, last_mail>>
    /\ UNCHANGED <<relayVars, offlineOnly>>
    /\ UNCHANGED <<procVars, last_read, pending>>

\* A POST to /toggle_relay arrives (line 91-93).
WebRequestFrom(states) ==
    /\ web.pc = "idle"
    /\ \E r \in Relays, st \in states :
          web' = [pc |-> "set", relay_name |-> r, new_state |-> st]
    /\ UNCHANGED <<now, last_sensor_reading_time, last_db_update_time, latest_sensor_data,
                   mongo, pc, step>>
    /\ UNCHANGED <<relayVars, sensorVars, offlineOnly>>
    /\ UNCHANGED <<procVars, last_read, pending>>

\* Line 94: set_relay_state in the handler's thread; a fault ends the request.
WebSetRelay ==
    /\ web.pc = "set"
    /\ \E fault \in BOOLEAN :
          /\ pin' = Actuate(pin, web.relay_name, web.new_state, fault)
          /\ last_cmd' = Commanded(last_cmd, web.relay_name, web.new_state, fault)
          /\ web' = [web EXCEPT !.pc = IF fault THEN "idle" ELSE "log"]
    /\ UNCHANGED <<now, last_sensor_reading_time, last_db_update_time, latest_sensor_data,
                   mongo, pc, step, relay_status>>
    /\ UNCHANGED <<sensorVars, offlineOnly>>
    /\ UNCHANGED <<procVars, last_read, pending>>

\* Line 95: log_relay_state in the handler's thread.
WebLogRelay ==
    /\ web.pc = "log"
    /\ \E reachable \in BOOLEAN :
          LET l == LogRelayState(web.relay_name, web.new_state, reachable) IN
          /\ relay_status' = l.status
          /\ mongo' = l.mongo
    /\ web' = [web EXCEPT !.pc = "idle"]
    /\ UNCHANGED <<now, last_sensor_reading_time, last_db_update_time, latest_sensor_data,
                   pc, step, pin, last_cmd>>
    /\ UNCHANGED <<sensorVars, offlineOnly>>
    /\ UNCHANGED <<procVars, last_read, pending>>

WebRequest == WebRequestFrom(WebStates)
WebRequestAny == WebRequestFrom(WebStrings)

NextMain ==
    \/ MainIdle \/ MainPollFails \/ MainPollOk
    \/ MainCheckRelay1 \/ MainSetRelay1 \/ MainLogRelay1
    \/ MainCheckRelay2 \/ MainSetRelay2 \/ MainLogRelay2
    \/ MainSleep
    \/ WebRequest \/ WebSetRelay \/ WebLogRelay
SpecMain == InitMain /\ [][NextMain]_vars

\* The web handler alone, serving requests with any new_state while the
\* control loop has not yet completed a poll.
NextWeb == WebRequestAny \/ WebSetRelay \/ WebLogRelay
SpecWeb == InitMain /\ [][NextWeb]_vars

-----------------------------------------------------------------------------
(* Properties *)

\* A loop iteration whose sensor read succeeded has run to its sleep.
PollDone == pc = "sleep" /\ step.kind = "poll_ok"

\* C1 (main.py): at each successful sensor poll, with humidity h and relay1's
\* record as the poll finds it: h < low and not ON commands ON, h >= high and
\* not OFF commands OFF, low <= h < high makes no set_relay_state call.
C1_HysteresisAtEveryPoll ==
    PollDone =>
        LET h == last_call.data.humidity
            before == IF step.policy1 THEN step.r1_before ELSE relay_status["relay1"]
        IN  /\ (h < Main_HUMIDITY_THRESHOLD_LOW /\ before # "ON") => step.r1_call = "ON"
            /\ (h >= Main_HUMIDITY_THRESHOLD_HIGH /\ before # "OFF") => step.r1_call = "OFF"
            /\ (Main_HUMIDITY_THRESHOLD_LOW <= h /\ h < Main_HUMIDITY_THRESHOLD_HIGH)
                  => step.r1_call = "none"

\* C2: whenever the temperature branch is evaluated, with temperature t and
\* relay2's record: t >= high and not ON commands ON, t < low and not OFF
\* commands OFF, and low <= t < high commands nothing: the loop goes on to its
\* sleep with no set_relay_state and no log_relay_state call for relay2.
C2_TemperatureHysteresis ==
    step.policy2 =>
        LET t == last_call.data.temperature_c
            before == step.r2_before
        IN  /\ (t >= TEMPERATURE_THRESHOLD_HIGH /\ before # "ON") => step.r2_call = "ON"
            /\ (t < TEMPERATURE_THRESHOLD_LOW /\ before # "OFF") => step.r2_call = "OFF"
            /\ (TEMPERATURE_THRESHOLD_LOW <= t /\ t < TEMPERATURE_THRESHOLD_HIGH)
                  => step.r2_call = "none"
            /\ (t >= TEMPERATURE_THRESHOLD_HIGH /\ before = "ON") => step.r2_call = "none"
            /\ (t < TEMPERATURE_THRESHOLD_LOW /\ before = "OFF") => step.r2_call = "none"
            /\ step.r2_call = "none" => pc = "sleep"

\* C2's case: a reading at the high threshold found relay2 not ON, and the
\* loop has switched it ON.
C2_Witness ==
    /\ step.policy2 /\ pc = "sleep"
    /\ last_call.data.temperature_c = TEMPERATURE_THRESHOLD_HIGH
    /\ step.r2_before = "OFF" /\ step.r2_call = "ON"
    /\ relay_status["relay2"] = "ON" /\ pin["relay2"] = "HIGH"

Called == last_call.outcome # "none"
\* All MAX_RETRIES attempts of the call were made and none succeeded.
Exhausted(c) == c.outcome # "ok" /\ Len(c.raws) = MAX_RETRIES
\* A raw read that lacks a channel: None, or the driver raised.
FailedRead(raw) == raw.t.k # "val" \/ raw.h.k # "val"

\* C4: the sensor-failed e-mail is sent by exactly the calls that exhaust
\* their attempts while the sensor is not marked failed, the sensor-recovered
\* e-mail by exactly the successful calls made while it is marked failed; the
\* two alternate, the flag being set exactly when the last e-mail is the
\* failure one.
C4_OneMailPerEdge ==
    /\ sensor_failed_previously <=> last_mail = FAILED_SUBJECT
    /\ Called =>
          /\ last_call.mail = FAILED_SUBJECT
                <=> (Exhausted(last_call) /\ ~last_call.failed_before)
          /\ last_call.mail = SUCCESS_SUBJECT
                <=> (last_call.outcome = "ok" /\ last_call.failed_before)

\* C5: a notification with a condition key is never followed by another with
\* the same key before NOTIFY_INTERVAL has passed.
C5_Cooldown ==
    [][(last_sent.any /\ last_sent'.at # last_sent.at)
          => last_sent'.at - last_sent.at >= NOTIFY_INTERVAL]_vars

\* C6: the telemetry cursors (last_db_update_time, last_sensor_publish_time)
\* of an iteration are the ones it found unless its emission succeeded.
C6_CursorOnlyOnSuccess ==
    step.kind = "poll_ok" =>
        (<<last_db_update_time, last_sensor_publish_time>> # step.cursor_before
            => step.emit = "ok")

\* C7: when a loop iteration has run to its sleep (and no web request is in
\* flight), each relay's record is the state last commanded to its actuator.
C7_RecordIsLastCommand ==
    (pc = "sleep" /\ web.pc = "idle") => \A r \in Relays : relay_status[r] = last_cmd[r]

\* C8: a call makes at most MAX_RETRIES attempts, resets the device between
\* two attempts and not after the last, returns the (calibrated) reading of
\* the first attempt that succeeds, and fails exactly when MAX_RETRIES
\* attempts were made and all failed.
C8_BoundedRetry ==
    Called =>
        LET n == Len(last_call.raws) IN
        /\ n <= MAX_RETRIES
        /\ last_call.resets = n - 1
        /\ \A i \in 1..(n - 1) : FailedRead(last_call.raws[i])
        /\ last_call.outcome = "ok" =>
              /\ ~FailedRead(last_call.raws[n])
              /\ last_call.data.temperature_c = last_call.raws[n].t.v + TEMPERATURE_BUFFER
              /\ last_call.data.humidity = last_call.raws[n].h.v + HUMIDITY_BUFFER
        /\ last_call.outcome # "ok" <=> (n = MAX_RETRIES /\ FailedRead(last_call.raws[n]))

\* C9: every raw read of a call that lacks a channel, the temperature as well
\* as the humidity, is followed by a retry when it is not the last attempt,
\* and by the RuntimeError, the failed flag and (when the flag was not set)
\* the sensor-failed e-mail when it is; a call that succeeds returns a reading
\* both channels of which the device gave.
C9_MissingChannelIsFailedAttempt ==
    Called =>
        LET n == Len(last_call.raws) IN
        /\ \A i \in 1..n :
              (last_call.raws[i].t.k = "none" \/ last_call.raws[i].h.k = "none") =>
                  /\ i < MAX_RETRIES => n > i
                  /\ i = MAX_RETRIES =>
                        /\ last_call.outcome = "RuntimeError"
                        /\ last_call.failed_after
                        /\ ~last_call.failed_before => last_call.mail = FAILED_SUBJECT
        /\ last_call.outcome = "ok" => ~FailedRead(last_call.raws[n])

\* C10: the Fahrenheit value of a reading is the conversion of the Celsius
\* value of the same reading.
C10_FahrenheitOfCalibrated ==
    last_call.outcome = "ok" =>
        last_call.data.temperature_f = CelsiusToFahrenheit(last_call.data.temperature_c)

\* C11: once the process has ended, by whatever path (KeyboardInterrupt, a
\* termination signal, an unhandled fault), the GPIO cleanup has been executed
\* exactly once.
C11_CleanupOnEveryExit == pc = "exited" => cleanups = 1

\* C12: the loop is left only by a shutdown signal, never by a fault; an
\* iteration that polled the sensor, whatever was raised in it (the read, an
\* actuation, the CSV append, a publish), is at its sleep, from where the next
\* tick follows.
C12_FaultsAreCaught ==
    /\ exit_path \in {"none", "KeyboardInterrupt", "SIGTERM"}
    /\ (exit_path = "none" /\ step.kind \in {"poll_ok", "poll_fail"}) => pc = "sleep"

\* C12's case: in a tick after the first one the read raised an exception
\* other than RuntimeError; the handler has published the error and the loop
\* is at its sleep.
C12_Witness ==
    /\ now > 0 /\ pc = "sleep" /\ exit_path = "none"
    /\ step.kind = "poll_fail" /\ last_call.outcome = "TypeError"
    /\ step.bus = <<MQTT_ERROR_TOPIC>>

\* C13 (main.py): a poll with a successful read and no actuation fault has
\* evaluated both relay policies when it ends, whatever the MongoDB inserts
\* of the cycle did.
C13_SinkFailureKeepsControl ==
    (pc = "sleep" /\ step.kind = "poll_ok" /\ ~step.r1_fault)
        => (step.policy1 /\ step.policy2)

\* C14: the relay-state records and the pins change only in steps of the
\* control loop, never in a step of the web handler.
C14_SingleWriter ==
    [][(relay_status' # relay_status \/ pin' # pin) => web' = web]_vars

\* C15: every ON interval of relay2 lasts exactly on_duration, and the edges
\* stay on the schedule fixed at the start: ON at k * P + (P - D), OFF at
\* (k + 1) * P.
C15_ExactDutyCycle ==
    (step.kind = "poll_ok" /\ step.policy2 /\ ~step.r2_fault) =>
        /\ step.r2_call = "OFF" =>
              /\ now - step.toggle_before = on_duration
              /\ now % interval_duration = 0
        /\ step.r2_call = "ON" =>
              now % interval_duration = interval_duration - on_duration

\* C16: a call that ends with a successful attempt leaves the sensor not
\* marked failed and sends no sensor-failed e-mail, whatever the calls before
\* it did; the mark and the e-mail come only from a call in which
\* MAX_RETRIES attempts were made and all of them failed.
C16_PartialFailureIsNotFailed ==
    Called =>
        /\ last_call.outcome = "ok" =>
              (~sensor_failed_previously /\ last_call.mail # FAILED_SUBJECT)
        /\ (last_call.mail = FAILED_SUBJECT
                \/ (sensor_failed_previously /\ ~last_call.failed_before)) =>
              /\ Len(last_call.raws) = MAX_RETRIES
              /\ \A i \in 1..MAX_RETRIES : FailedRead(last_call.raws[i])

\* C16's case: a call whose first two attempts failed and whose third
\* succeeded, made while the sensor was not marked failed.
C16_Witness ==
    /\ last_call.outcome = "ok" /\ Len(last_call.raws) = MAX_RETRIES
    /\ last_call.resets = MAX_RETRIES - 1
    /\ FailedRead(last_call.raws[1]) /\ FailedRead(last_call.raws[2])
    /\ ~last_call.failed_before /\ ~sensor_failed_previously
    /\ last_call.mail = NoMail

\* C17: two successive invocations of read_sensor_data by the loop are at
\* least SLEEP_DURATION_SENSOR apart, whether the earlier one failed or not.
C17_PollCadence ==
    [][(last_read.any /\ last_read'.at # last_read.at)
          => last_read'.at - last_read.at >= SLEEP_DURATION_SENSOR]_vars

\* C18: at the end of every sensor-poll cycle, the read having succeeded or
\* failed (cycles with a CSV or an actuation fault set aside), relay2 has no
\* transition overdue: it is not ON with on_duration elapsed, nor OFF with
\* interval_duration - on_duration elapsed.
C18_ScheduleIndependentOfSensor ==
    (pc = "sleep" /\ step.kind \in {"poll_ok", "poll_fail"}
        /\ step.csv # "raised" /\ ~step.r2_fault) =>
        LET e == now - last_relay2_toggle_time IN
        /\ relay_status["relay2"] = "ON" => e < on_duration
        /\ relay_status["relay2"] = "OFF" => e < interval_duration - on_duration

\* C19: the step of a sensor-poll cycle whose read fails evaluates no
\* threshold policy and leaves the relay-state records, the pins, the
\* reading shown by the web page, the telemetry cursors and the duty-cycle
\* timer as they were.
C19_FailedReadChangesNothing ==
    [][(pc = "top" /\ step'.kind = "poll_fail") =>
          /\ ~step'.policy1 /\ ~step'.policy2
          /\ step'.r1_call = "none" /\ step'.r2_call = "none"
          /\ UNCHANGED <<relay_status, pin, last_cmd, latest_sensor_data,
                         last_db_update_time, last_sensor_publish_time,
                         last_relay2_toggle_time>>]_vars

\* C19's case: a read fails in a cycle after one that switched relay1 ON and
\* gave the web page a reading.
C19_Witness ==
    /\ step.kind = "poll_fail" /\ pc = "sleep" /\ now > 0
    /\ relay_status["relay1"] = "ON" /\ pin["relay1"] = "HIGH"
    /\ latest_sensor_data # NoData
    /\ last_db_update_time = 0

\* C20 (main_offline.py): the CSV row of a cycle carries the relay states
\* that result from the cycle, both policies having run before the row is
\* written.
C20_RowHoldsResultingStates ==
    (step.kind = "poll_ok" /\ step.csv = "ok") =>
        /\ step.csv_row[4] = relay_status["relay1"]
        /\ step.csv_row[5] = relay_status["relay2"]

\* C21: a set_relay_state call that raises leaves the relay's record, and for
\* relay2 the duty-cycle timer, as they were in that step; and at the next
\* cycle that evaluates the relay's policy with its condition still holding
\* (humidity still beyond the threshold, the phase still elapsed) the same
\* call is made again.
C21_FaultedCallIsRetried ==
    [][(pc = "top" /\ step'.kind = "poll_ok") =>
          /\ (step'.r1_call # "none" /\ step'.r1_fault) =>
                /\ relay_status'["relay1"] = relay_status["relay1"]
                /\ pending'["relay1"] = step'.r1_call
          /\ (step'.r2_call # "none" /\ step'.r2_fault) =>
                /\ relay_status'["relay2"] = relay_status["relay2"]
                /\ last_relay2_toggle_time' = last_relay2_toggle_time
                /\ pending'["relay2"] = step'.r2_call
          /\ (step'.policy1 /\ pending["relay1"] = "ON"
                /\ last_call'.data.humidity < HUMIDITY_THRESHOLD_LOW) => step'.r1_call = "ON"
          /\ (step'.policy1 /\ pending["relay1"] = "OFF"
                /\ last_call'.data.humidity >= HUMIDITY_THRESHOLD_HIGH) => step'.r1_call = "OFF"
          /\ (step'.policy2 /\ pending["relay2"] = "ON"
                /\ step'.r2_elapsed >= interval_duration - on_duration) => step'.r2_call = "ON"
          /\ (step'.policy2 /\ pending["relay2"] = "OFF"
                /\ step'.r2_elapsed >= on_duration) => step'.r2_call = "OFF"
      ]_vars

\* C21's case: the call that switches relay2 ON raised in an earlier cycle,
\* the timer kept its value, and this cycle has made the call again and
\* switched the relay ON.
C21_Witness ==
    /\ step.kind = "poll_ok" /\ step.policy2
    /\ step.pending_before["relay2"] = "ON"
    /\ step.r2_before = "OFF" /\ step.r2_call = "ON" /\ ~step.r2_fault
    /\ step.r2_elapsed > interval_duration - on_duration
    /\ relay_status["relay2"] = "ON" /\ pending["relay2"] = "none"

\* C22: a cycle free of faults that reads a humidity below
\* HUMIDITY_ALERT_THRESHOLD with relay1 recorded ON since before the cycle
\* dispatches the sustained-low-humidity notification
\* unless one was sent less than NOTIFY_INTERVAL ago: after such a cycle the
\* latest notification with that key is younger than the cooldown.  And no
\* such notification is sent by a cycle that leaves relay1 recorded OFF.
C22_SustainedLowHumidityAlert ==
    (step.kind = "poll_ok" /\ pc = "sleep" /\ last_sent.key = KeySustained) =>
        /\ (last_call.data.humidity < HUMIDITY_ALERT_THRESHOLD
              /\ step.r1_before = "ON" /\ relay_status["relay1"] = "ON"
              /\ step.csv = "ok" /\ ~step.r2_fault)
                => (last_sent.any /\ now - last_sent.at < NOTIFY_INTERVAL)
        /\ (last_sent.any /\ last_sent.at = now) => relay_status["relay1"] = "ON"

\* C23 (main_offline.py): the duty-cycle timer changes in a step exactly when
\* the recorded state of relay2 changes in that step; a cycle whose
\* set_relay_state call for relay2 raised, or whose policy made no call,
\* leaves the timer as it was.
C23_TimerMovesWithRecord ==
    [][/\ (last_relay2_toggle_time' # last_relay2_toggle_time)
            <=> (relay_status'["relay2"] # relay_status["relay2"])
       /\ (pc = "top" /\ step'.kind = "poll_ok"
             /\ (step'.r2_call = "none" \/ step'.r2_fault))
            => last_relay2_toggle_time' = last_relay2_toggle_time
      ]_vars

\* C23's case: the OFF phase has ended, the cycle has switched relay2 ON and
\* set the timer to the time of the cycle.
C23_Witness ==
    /\ step.kind = "poll_ok" /\ step.policy2
    /\ step.r2_before = "OFF" /\ step.r2_call = "ON" /\ ~step.r2_fault
    /\ relay_status["relay2"] = "ON"
    /\ step.toggle_before = 0 /\ now > 0 /\ last_relay2_toggle_time = now

\* C24: in every reachable state each relay-state record holds ON or OFF:
\* at startup, and after a manual override whatever new_state it carried.
C24_RecordIsOnOrOff ==
    \A r \in Relays : relay_status[r] \in {"ON", "OFF"}

\* The part of C24 about overrides, startup set aside: a record that has been
\* written holds ON or OFF.
C24_OverrideStoresOnOrOff ==
    \A r \in Relays : relay_status[r] \in {"None", "ON", "OFF"}

\* C25 (main_offline.py): while the sensor keeps failing, every read
\* exhausting its retries, two cycles that each put an error message on the
\* bus are at least one sensor-poll interval apart.
C25_ErrorsAtPollCadence ==
    [][(pc = "top" /\ step'.kind = "poll_fail"
          /\ sensor_failed_previously /\ Exhausted(last_call')
          /\ last_read.any /\ last_read.err /\ last_read'.err)
          => last_read'.at - last_read.at >= SLEEP_DURATION_SENSOR]_vars

\* C26 (main.py): whatever the interleaving of a toggle_relay request with
\* check_conditions_and_toggle_relays, once the request has been served and
\* the loop iteration has run to its sleep, the record of each relay that was
\* ever written agrees with the level of its pin.
C26_RecordMatchesPinAfterRace ==
    (pc = "sleep" /\ web.pc = "idle") =>
        \A r \in Relays : relay_status[r] # "None" => pin[r] = PinLevel(relay_status[r])

\* C27 (main.py): an insert_data call made by the loop never raises: it
\* reports failure when the store cannot be reached and success when it can,
\* whether or not the store was reachable when the handler was constructed.
C27_InsertReportsNeverRaises ==
    (step.kind = "poll_ok" /\ step.store # "none") =>
        /\ step.emit \in {"ok", "fail"}
        /\ step.store = "down" => step.emit = "fail"
        /\ step.store = "up" => step.emit = "ok"
====
